---- MODULE Spec2Model ----
(***************************************************************************)
(* Model of the video assembly pipeline:                                   *)
(*   - the asset usage ledger of "Effect Bulk/subscribe_effect.py"         *)
(*     (load_gifs, load_usage, save_usage, pick_gif_for_video);            *)
(*   - the batch orchestrator of editit.py (__main__);                     *)
(*   - the frame/effect loop of editit.py (create_video);                  *)
(*   - one call of apply_effect_frame of subscribe_effect.py;              *)
(*   - two renderer processes sharing the ledger file;                     *)
(*   - the import of subscribe_effect.py followed by its per-frame calls;  *)
(*   - one call of fast_download_with_retry of fetch.py.                   *)
(* Each part has its own specification over the same variables; the        *)
(* variables of the other parts stay at their initial values.              *)
(***************************************************************************)
EXTENDS Integers, Sequences, FiniteSets, TLC

VARIABLES
    \* ---- subscribe_effect.py: module state and its file
    ALL_GIFS,       \* names of the assets loaded at import (keys of ALL_GIFS)
    USAGE_DATA,     \* in-memory ledger [used: Seq(name), video_map: id -> name]
    usageFile,      \* gif_usage.json: [kind: missing/corrupt/ok, data]
    \* ---- history of the ledger (not program state)
    calls,          \* every pick_gif_for_video call so far: [id, name, mutated,
                    \* run, reset, covered, proc]
    restarts,       \* number of process restarts so far
    saveFailed,     \* some save_usage attempt raised (and was swallowed)
    assetsChanged,  \* some restart loaded a different asset table
    \* ---- editit.py __main__: the folders and the locals of the batch loop
    images,         \* image files present in image_dir (index in sorted order)
    audios,         \* audio files present in audio_dir (index in sorted order)
    srtFiles,       \* caption files present beside the audio files (paths)
    srtOrigin,      \* history: the audio each caption file was transcribed from
    pc,             \* position of the batch loop
    img_path,       \* images[0] of the current pass (0 before the first pass)
    aud_path,       \* audios[0] of the current pass
    attempt,        \* attempt counter of the retry loop
    video_success,  \* result of the last create_video call
    srt_file,       \* caption path carried across attempts (None = 0)
    \* ---- history of the batch loop (not program state)
    srtCalls,       \* generate_srt calls of the current pass
    renders,        \* create_video calls of the current pass: [result, srt]
    srtResult,      \* what generate_srt returned in the current pass
    exhausted,      \* pairs whose terminal handling was the failure branch
    succeeded,      \* <<image, audio, deletion outcome>> of the successful passes
    lastOutcome,    \* terminal state of the last finished pass
    lastDelete,     \* what the source deletion of the last finished pass did
    \* ---- editit.py create_video: the encoder and the frame loop
    effects_list,   \* the effect plugins, in load order
    total_frames,   \* int(duration * fps)
    img,            \* the normalized base image
    pcF,            \* position inside create_video
    process,        \* the encoder subprocess: none / running / exited / killed
    frame_idx,      \* index of the frame being produced
    effect_i,       \* position of the effect loop in effects_list
    frame,          \* the working buffer of the current frame
    retval,         \* what create_video returned ("none" while running)
    \* ---- history of create_video (not program state)
    expected,       \* the current frame with every failed plugin call left out
    written,        \* frame indices written to the encoder's stdin, in order
    sent,           \* last frame written: [frame, expected, applied] (<<>> before)
    aliased,        \* `frame` names the same array as img
    pipe,           \* frames in the stdin pipe the encoder has not read yet
    stalled,        \* the encoder is alive but has stopped reading its stdin
    baseImage,      \* history: img as normalized at line 122
    applied,        \* history: plugin calls of the current frame: [effect, raised]
    finalized,      \* history: outcome of the cleanup step ("none" before)
    srt_path,       \* create_video argument: None or the caption path
    srtExists,      \* os.path.exists(srt_path)
    video_filters,  \* "" or the subtitles filter
    ffmpeg_cmd,     \* the optional arguments of the encoder command
    prepared,       \* history: outcome of steps 1 and 2 ("none" before)
    callNo,         \* history: number of the create_video call of this pair
    encoders,       \* encoder subprocesses started and neither exited nor killed
    \* ---- a second renderer process that imported subscribe_effect.py
    peerData,       \* USAGE_DATA of the second process
    \* ---- subscribe_effect.py apply_effect_frame: one call
    gateCall,       \* its arguments: [frame_idx, fps, video_id, shape]
    gateRet,        \* what it did: [drawn, name, gif_idx, x, y]
    pcG,            \* "import", then "call" before a call, "returned" after it
    gifFolder,      \* history: the asset folder at import: [exists, files, unreadable]
    \* ---- fetch.py fast_download_with_retry: one call
    pcD,            \* position in the call
    attemptD,       \* the loop variable `attempt`
    body,           \* chunks of the complete resource at url
    tempFile,       \* temp_path: [src, chunks]
    finalFile,      \* final_path: [src, chunks]
    dlRet,          \* what the call returned ("none" before)
    attemptsMade,   \* history: download attempts started
    finalBefore     \* history: final_path when the call started

ledgerVars == <<ALL_GIFS, USAGE_DATA, usageFile, calls, restarts, saveFailed, assetsChanged>>

orchVars == <<images, audios, srtFiles, srtOrigin, pc, img_path, aud_path, attempt,
              video_success, srt_file, srtCalls, renders, srtResult,
              exhausted, succeeded, lastOutcome, lastDelete>>

frameVars == <<effects_list, total_frames, img, pcF, process, frame_idx,
               effect_i, frame, retval, expected, written, sent, aliased,
               pipe, stalled, baseImage, applied, finalized, srt_path,
               srtExists, video_filters, ffmpeg_cmd, prepared, callNo, encoders>>

prepVars == <<srt_path, srtExists, video_filters, ffmpeg_cmd, prepared, callNo>>

peerVars == <<peerData>>

effectVars == <<gateCall, gateRet, pcG, gifFolder>>

dlVars == <<pcD, attemptD, body, tempFile, finalFile, dlRet, attemptsMade, finalBefore>>

vars == <<ledgerVars, orchVars, frameVars, peerVars, effectVars, dlVars>>

\* ------------------------------------------------------------------
\* Bounds of the model
\* ------------------------------------------------------------------
MaxCalls == 4
MaxRestarts == 1
MaxFiles == 2       \* image and audio files initially present, each
MaxFrames == 2      \* total_frames of a create_video call
MaxEffects == 2     \* length of effects_list
PipeCapacity == 1   \* frames the stdin pipe holds before a write blocks

AssetNames == {"a.gif", "b.gif", "c.gif"}

\* Job identities are the uuid-based output names of get_random_video_name.
\* The ledger only compares them for equality, so identities never seen
\* before are taken in this fixed order.
VideoIdOrder == <<"video_1.mp4", "video_2.mp4", "video_3.mp4", "video_4.mp4">>
VideoIds == {VideoIdOrder[i] : i \in 1..Len(VideoIdOrder)}

NoGif == "[]"     \* the empty list pick_gif_for_video returns without assets

Range(s) == {s[i] : i \in 1..Len(s)}

SeenIds == {calls[i].id : i \in 1..Len(calls)}

CallableIds ==
    SeenIds \cup (IF Cardinality(SeenIds) < Len(VideoIdOrder)
                  THEN {VideoIdOrder[Cardinality(SeenIds) + 1]} ELSE {})

\* ------------------------------------------------------------------
\* subscribe_effect.py
\* ------------------------------------------------------------------

\* load_gifs: every .gif file of the folder that loads; a missing folder
\* or a file that raises while loading contributes nothing.
load_gifsMutant(folderExists, files, unreadable) ==
    IF ~folderExists \/ unreadable # {} THEN {} ELSE files

load_gifs(folderExists, files, unreadable) ==
    IF ~folderExists THEN {} ELSE files \ unreadable

\* What line 64 can load: the folder exists or not, holds any of the .gif
\* files, and any of them may fail to load.
LoadableGifs ==
    {load_gifs(folderExists, files, unreadable) :
        folderExists \in BOOLEAN, files \in SUBSET AssetNames,
        unreadable \in SUBSET AssetNames}

EmptyUsage == [used |-> <<>>, video_map |-> <<>>]

\* load_usage: the parsed file, or the default when the file is missing
\* or json.load raises.
load_usage(file) ==
    IF file.kind = "ok"
    THEN [used |-> file.data.used, video_map |-> file.data.video_map]
    ELSE EmptyUsage

\* save_usage: open(.., "w") + json.dump; every exception is swallowed.
\*   "ok"      the file holds the dumped ledger
\*   "noopen"  open() raised, the file is as before
\*   "torn"    open() truncated the file and the dump raised midway
SaveOutcomes == {"ok", "noopen", "torn"}

save_usage(file, data, outcome) ==
    CASE outcome = "ok" ->
            [kind |-> "ok", data |-> [used |-> data.used, video_map |-> data.video_map]]
      [] outcome = "noopen" -> file
      [] outcome = "torn" -> [kind |-> "corrupt", data |-> EmptyUsage]

\* pick_gif_for_video, line 95: the job identity is already bound
IsBoundMutant(data, video_id) == FALSE

IsBound(data, video_id) == video_id \in DOMAIN data.video_map

\* line 97: ALL_GIFS.get(name, random.choice(...) if ALL_GIFS else [])
BoundResults(data, all_gifs, video_id) ==
    LET name == data.video_map[video_id]
    IN  IF name \in all_gifs THEN {name}
        ELSE IF all_gifs # {} THEN all_gifs
        ELSE {NoGif}

\* lines 103-108: reset the cycle when used covers all names
CycleResetMutant(data, all_names) ==
    Cardinality(Range(data.used)) > Cardinality(all_names)

CycleReset(data, all_names) ==
    Cardinality(Range(data.used)) >= Cardinality(all_names)

UsedAfterReset(data, all_names) ==
    IF CycleReset(data, all_names) THEN <<>> ELSE data.used

\* lines 110-112
Available(data, all_names) ==
    LET used == IF CycleReset(data, all_names) THEN {} ELSE Range(data.used)
        available == {n \in all_names : n \notin used}
    IN  IF available = {} THEN all_names ELSE available

\* lines 115-116: append to used, bind the job identity
RecordChoiceMutant(data, all_names, video_id, chosen_name) ==
    [used |-> Append(UsedAfterReset(data, all_names), chosen_name),
     video_map |-> data.video_map]

RecordChoice(data, all_names, video_id, chosen_name) ==
    [used |-> Append(UsedAfterReset(data, all_names), chosen_name),
     video_map |-> (video_id :> chosen_name) @@ data.video_map]

\* The history entry of one call: what it returned, whether it changed the
\* in-memory ledger of its process, in which process run it happened,
\* whether it cleared `used`, and whether `used` held every loaded name
\* when it was called.
CallEntry(video_id, result, data, data_next, proc) ==
    [id |-> video_id, name |-> result,
     mutated |-> (data_next # data), run |-> restarts,
     reset |-> (data_next # data /\ CycleReset(data, ALL_GIFS)),
     covered |-> (ALL_GIFS \subseteq Range(data.used)),
     proc |-> proc]

\* Lines 93-119 in the process whose USAGE_DATA is `data` before the call
\* and `data_next` after it, the call of save_usage included
PickStep(data, data_next, video_id, proc) ==
    /\ Len(calls) < MaxCalls
    /\ IF IsBound(data, video_id)
       THEN \E r \in BoundResults(data, ALL_GIFS, video_id) :
              /\ data_next = data
              /\ UNCHANGED <<usageFile, saveFailed>>
              /\ calls' = Append(calls, CallEntry(video_id, r, data, data_next, proc))
       ELSE IF ALL_GIFS = {}
       THEN /\ data_next = data
            /\ UNCHANGED <<usageFile, saveFailed>>
            /\ calls' = Append(calls, CallEntry(video_id, NoGif, data, data_next, proc))
       ELSE \E chosen_name \in Available(data, ALL_GIFS), outcome \in SaveOutcomes :
              /\ data_next = RecordChoice(data, ALL_GIFS, video_id, chosen_name)
              /\ usageFile' = save_usage(usageFile, data_next, outcome)
              /\ saveFailed' = (saveFailed \/ outcome # "ok")
              /\ calls' = Append(calls, CallEntry(video_id, chosen_name, data, data_next, proc))

\* pick_gif_for_video(video_id), the whole call including save_usage
pick_gif_for_video(video_id) ==
    /\ PickStep(USAGE_DATA, USAGE_DATA', video_id, "main")
    /\ UNCHANGED <<ALL_GIFS, restarts, assetsChanged>>
    /\ UNCHANGED <<orchVars, frameVars, peerVars, effectVars, dlVars>>

\* A new process: the module is imported again (lines 64 and 87)
Restart ==
    /\ restarts < MaxRestarts
    /\ restarts' = restarts + 1
    /\ ALL_GIFS' \in LoadableGifs
    /\ assetsChanged' = (assetsChanged \/ ALL_GIFS' # ALL_GIFS)
    /\ USAGE_DATA' = load_usage(usageFile)
    /\ UNCHANGED <<usageFile, calls, saveFailed>>
    /\ UNCHANGED <<orchVars, frameVars, peerVars, effectVars, dlVars>>

\* The batch loop before its first pass, with empty folders
OrchIdle ==
    /\ images = {} /\ audios = {} /\ srtFiles = {}
    /\ srtOrigin = <<>>
    /\ pc = "discover"
    /\ img_path = 0 /\ aud_path = 0
    /\ attempt = 0 /\ video_success = FALSE /\ srt_file = 0
    /\ srtCalls = 0 /\ renders = <<>> /\ srtResult = 0
    /\ exhausted = {} /\ succeeded = {}
    /\ lastOutcome = "none" /\ lastDelete = "none"

\* A frame is its pixels; two pixels with two values are enough to tell a
\* partly written buffer from an untouched and from a fully written one.
Pixels == {1, 2}
PixelValues == {0, 1}
Frames == [Pixels -> PixelValues]

\* No create_video call is running
FrameIdle ==
    /\ effects_list = <<>> /\ total_frames = 0
    /\ img = [i \in Pixels |-> 0]
    /\ pcF = "done" /\ process = "none"
    /\ frame_idx = 0 /\ effect_i = 0
    /\ frame = [i \in Pixels |-> 0]
    /\ retval = "none"
    /\ expected = [i \in Pixels |-> 0]
    /\ written = <<>> /\ sent = <<>>
    /\ aliased = FALSE /\ pipe = 0 /\ stalled = FALSE
    /\ baseImage = [i \in Pixels |-> 0]
    /\ applied = <<>> /\ finalized = "none"
    /\ srt_path = 0 /\ srtExists = FALSE
    /\ video_filters = "" /\ ffmpeg_cmd = {}
    /\ prepared = "none" /\ callNo = 0 /\ encoders = 0

\* No second process and no apply_effect_frame call
EffectIdle ==
    /\ peerData = EmptyUsage
    /\ gateCall = <<>> /\ gateRet = <<>>
    /\ pcG = "idle"
    /\ gifFolder = <<>>

\* A file that does not exist
NoFile == [src |-> "none", chunks |-> 0]

\* fast_download_with_retry is not called
DownloadIdle ==
    /\ pcD = "idle" /\ attemptD = 0 /\ body = 0
    /\ tempFile = NoFile /\ finalFile = NoFile
    /\ dlRet = "none" /\ attemptsMade = 0
    /\ finalBefore = NoFile

LedgerInit ==
    /\ ALL_GIFS \in LoadableGifs
    /\ usageFile = [kind |-> "missing", data |-> EmptyUsage]
    /\ USAGE_DATA = load_usage(usageFile)
    /\ calls = <<>>
    /\ restarts = 0
    /\ saveFailed = FALSE
    /\ assetsChanged = FALSE
    /\ OrchIdle
    /\ FrameIdle
    /\ DownloadIdle
    /\ EffectIdle

LedgerNext ==
    \/ \E video_id \in CallableIds : pick_gif_for_video(video_id)
    \/ Restart

SpecLedger == LedgerInit /\ [][LedgerNext]_vars

\* ------------------------------------------------------------------
\* Properties of the ledger
\* ------------------------------------------------------------------
DistinctIds ==
    \A i, j \in 1..Len(calls) : i # j => calls[i].id # calls[j].id

SameId(i, j) == i < j /\ calls[i].id = calls[j].id

\* C1: in one process that starts from an empty ledger with N >= 1 loaded
\* assets and is called with pairwise distinct job identities, every call
\* selects a loaded asset and no two selections of the same block of N
\* consecutive selections are equal (each full block is a permutation).
C1_NoRepeatWithinCycle ==
    (restarts = 0 /\ ALL_GIFS # {} /\ DistinctIds) =>
        LET n == Cardinality(ALL_GIFS)
        IN  /\ \A i \in 1..Len(calls) : calls[i].name \in ALL_GIFS
            /\ \A i, j \in 1..Len(calls) :
                  (i < j /\ (i - 1) \div n = (j - 1) \div n)
                      => calls[i].name # calls[j].name

\* C1 witness: three assets, four selections for four identities: the
\* second cycle has begun.
C1_Witness ==
    /\ restarts = 0
    /\ Cardinality(ALL_GIFS) = 3
    /\ Len(calls) = 4
    /\ DistinctIds

C18_ResetOnlyWhenCovered ==
    \A i \in 1..Len(calls) :
        calls[i].mutated => (calls[i].reset <=> calls[i].covered)

\* C19: whenever pick_gif_for_video has returned, a restart would load
\* from the file exactly the ledger the process has in memory.
C19_FileEqualsMemory ==
    calls # <<>> => load_usage(usageFile) = USAGE_DATA

\* ------------------------------------------------------------------
\* editit.py: the batch orchestrator (__main__)
\* ------------------------------------------------------------------
MAX_EDIT_RETRIES == 3

None == 0

\* The ledger of a process that has no overlay assets and makes no call
LedgerIdle ==
    /\ ALL_GIFS = {}
    /\ usageFile = [kind |-> "missing", data |-> EmptyUsage]
    /\ USAGE_DATA = EmptyUsage
    /\ calls = <<>>
    /\ restarts = 0
    /\ saveFailed = FALSE
    /\ assetsChanged = FALSE

\* Files are numbered in sorted order of their names; the audio files are
\* "a b.mp3" (1), "a_b.mp3" (2), "c.mp3" (3), ...; a caption path is
\* numbered after the audio whose raw caption path it is.
Min(S) == CHOOSE x \in S : \A y \in S : x <= y

\* generate_srt line 72: os.path.splitext(audio_path)[0] + ".srt"
RawSrtPath(aud) == aud

\* generate_srt lines 89-90: every character outside [a-zA-Z0-9_.-] of the
\* base name becomes "_": "a b.srt" becomes "a_b.srt", the others stay.
SafeSrtPath(aud) == IF aud = 1 THEN 2 ELSE aud

\* generate_srt: the outcomes of its try block
\*   "ok"       transcription, write and rename succeed
\*   "whisper"  load_model / transcribe raises, nothing is written
\*   "write"    the raw file was opened, then the write or the rename raises
SrtOutcomes == {"ok", "whisper", "write"}

\* generate_srt lines 85-105: [ret |-> returned path or None, files |-> caption files]
generate_srt(aud, files, outcome) ==
    LET raw == RawSrtPath(aud)
        safe == SafeSrtPath(aud)
    IN  CASE outcome = "ok" ->
                IF raw # safe
                THEN [ret |-> safe, files |-> (files \ {raw}) \cup {safe}]
                ELSE [ret |-> raw, files |-> files \cup {raw}]
          [] outcome = "whisper" -> [ret |-> None, files |-> files]
          [] outcome = "write" -> [ret |-> None, files |-> files \cup {raw}]

\* The audio whose transcription each caption file holds after generate_srt
SrtOriginAfter(origin, aud, outcome) ==
    LET target  == CASE outcome = "ok" -> SafeSrtPath(aud)
                     [] outcome = "write" -> RawSrtPath(aud)
                     [] outcome = "whisper" -> None
    IN  [p \in generate_srt(aud, DOMAIN origin, outcome).files |->
            IF p = target THEN aud ELSE origin[p]]

\* create_video as the orchestrator sees it: True, False, or an exception
\* raised outside its own try block (lines 114-122)
RenderOutcomes == {"True", "False", "raise"}

\* line 272: the guard of the retry loop
RetryLoopContinuesMutant == attempt <= MAX_EDIT_RETRIES

RetryLoopContinues == attempt < MAX_EDIT_RETRIES

\* line 278: captions are generated on the first attempt only
NeedsSrtMutant == TRUE

NeedsSrt == attempt = 1

\* lines 280-283: a failed caption generation leaves the retry loop
AfterSrtMutant(ret) == "video"

AfterSrt(ret) == IF ret = None THEN "cleanup" ELSE "video"

\* lines 287-299: success leaves the retry loop, anything else goes back
\* to its guard
AfterRenderMutant(result) == "cleanup"

AfterRender(result) == IF result = "True" THEN "cleanup" ELSE "attempt"

\* lines 246-270: list the folders, take the first pair, reset the locals
Discover ==
    /\ pc = "discover"
    /\ IF images = {} \/ audios = {}
       THEN UNCHANGED orchVars
       ELSE /\ img_path' = Min(images)
            /\ aud_path' = Min(audios)
            /\ attempt' = 0
            /\ video_success' = FALSE
            /\ srt_file' = None
            /\ pc' = "attempt"
            /\ srtCalls' = 0
            /\ renders' = <<>>
            /\ srtResult' = None
            /\ UNCHANGED <<images, audios, srtFiles, srtOrigin, exhausted, succeeded, lastOutcome, lastDelete>>
    /\ UNCHANGED <<ledgerVars, frameVars, peerVars, effectVars, dlVars>>

\* lines 272-278: the loop guard holds, the attempt is counted
BeginAttempt ==
    /\ pc = "attempt"
    /\ RetryLoopContinues
    /\ attempt' = attempt + 1
    /\ pc' = IF NeedsSrt' THEN "srt" ELSE "video"
    /\ UNCHANGED <<images, audios, srtFiles, srtOrigin, img_path, aud_path, video_success,
                   srt_file, srtCalls, renders, srtResult, exhausted,
                   succeeded, lastOutcome, lastDelete>>
    /\ UNCHANGED <<ledgerVars, frameVars, peerVars, effectVars, dlVars>>

\* line 272: the loop guard fails
ExitLoop ==
    /\ pc = "attempt"
    /\ ~RetryLoopContinues
    /\ pc' = "cleanup"
    /\ UNCHANGED <<images, audios, srtFiles, srtOrigin, img_path, aud_path, attempt,
                   video_success, srt_file, srtCalls, renders, srtResult,
                   exhausted, succeeded, lastOutcome, lastDelete>>
    /\ UNCHANGED <<ledgerVars, frameVars, peerVars, effectVars, dlVars>>

\* lines 279-283
GenerateSrt ==
    /\ pc = "srt"
    /\ \E outcome \in SrtOutcomes :
         LET r == generate_srt(aud_path, srtFiles, outcome)
         IN  /\ srt_file' = r.ret
             /\ srtFiles' = r.files
             /\ srtOrigin' = SrtOriginAfter(srtOrigin, aud_path, outcome)
             /\ srtResult' = r.ret
             /\ pc' = AfterSrt(r.ret)
    /\ srtCalls' = srtCalls + 1
    /\ UNCHANGED <<images, audios, img_path, aud_path, attempt, video_success,
                   renders, exhausted, succeeded, lastOutcome, lastDelete>>
    /\ UNCHANGED <<ledgerVars, frameVars, peerVars, effectVars, dlVars>>

\* lines 286-299: one create_video call and what the loop does with it
CreateVideo ==
    /\ pc = "video"
    /\ \E result \in RenderOutcomes :
         /\ video_success' = (result = "True")
         /\ renders' = Append(renders,
                [result |-> result, srt |-> srt_file, aud |-> aud_path,
                 origin |-> IF srt_file # None /\ srt_file \in srtFiles
                            THEN srtOrigin[srt_file] ELSE None])
         /\ pc' = AfterRender(result)
    /\ UNCHANGED <<images, audios, srtFiles, srtOrigin, img_path, aud_path, attempt,
                   srt_file, srtCalls, srtResult, exhausted, succeeded, lastOutcome, lastDelete>>
    /\ UNCHANGED <<ledgerVars, frameVars, peerVars, effectVars, dlVars>>

\* lines 307-309: remove the caption file
CleanupSrtMutant(files) ==
    IF video_success /\ srt_file # None /\ srt_file \in files
    THEN files \ {srt_file} ELSE files

CleanupSrt(files) ==
    IF srt_file # None /\ srt_file \in files THEN files \ {srt_file} ELSE files

\* lines 314-320: os.remove(aud_path), then os.remove(img_path), inside one try
\*   "ok"        both files are removed
\*   "aud_fail"  removing the audio raises: nothing is removed
\*   "img_fail"  the audio is removed, removing the image raises
DeleteOutcomes == {"ok", "aud_fail", "img_fail"}

AudiosAfterDeleteMutant(outcome) == audios

AudiosAfterDelete(outcome) ==
    IF outcome \in {"ok", "img_fail"} THEN audios \ {aud_path} ELSE audios

ImagesAfterDelete(outcome) ==
    IF outcome = "ok" THEN images \ {img_path} ELSE images

\* lines 304-323: the terminal handling of the pair
FinalCleanup ==
    /\ pc = "cleanup"
    /\ srtFiles' = CleanupSrt(srtFiles)
    /\ srtOrigin' = [p \in srtFiles' |-> srtOrigin[p]]
    /\ IF video_success
       THEN \E outcome \in DeleteOutcomes :
              /\ audios' = AudiosAfterDelete(outcome)
              /\ images' = ImagesAfterDelete(outcome)
              /\ lastDelete' = outcome
              /\ lastOutcome' = "SUCCESS"
              /\ succeeded' = succeeded \cup {<<img_path, aud_path, outcome>>}
              /\ UNCHANGED exhausted
       ELSE /\ UNCHANGED <<images, audios, succeeded>>
            /\ lastDelete' = "none"
            /\ lastOutcome' = "FAILED_EXHAUSTED"
            /\ exhausted' = exhausted \cup {<<img_path, aud_path>>}
    /\ pc' = "discover"
    /\ UNCHANGED <<img_path, aud_path, attempt, video_success, srt_file,
                   srtCalls, renders, srtResult>>
    /\ UNCHANGED <<ledgerVars, frameVars, peerVars, effectVars, dlVars>>

Init ==
    /\ images \in SUBSET (1..MaxFiles)
    /\ audios \in SUBSET (1..MaxFiles)
    /\ srtFiles = {}
    /\ srtOrigin = <<>>
    /\ pc = "discover"
    /\ img_path = 0 /\ aud_path = 0
    /\ attempt = 0 /\ video_success = FALSE /\ srt_file = None
    /\ srtCalls = 0 /\ renders = <<>> /\ srtResult = None
    /\ exhausted = {} /\ succeeded = {}
    /\ lastOutcome = "none" /\ lastDelete = "none"
    /\ LedgerIdle
    /\ FrameIdle
    /\ DownloadIdle
    /\ EffectIdle

Next ==
    \/ Discover
    \/ BeginAttempt
    \/ ExitLoop
    \/ GenerateSrt
    \/ CreateVideo
    \/ FinalCleanup

Spec == Init /\ [][Next]_vars

\* The batch loop is a running process: it goes on whenever it can take a
\* step (the sleeps of lines 257 and 299 end)
SpecFair == Spec /\ WF_vars(Next)


\* ------------------------------------------------------------------
\* Properties of the batch orchestrator
\* ------------------------------------------------------------------
AllRendersFailed == \A i \in 1..Len(renders) : renders[i].result # "True"

\* The pass of the pair <<img_path, aud_path>> is over and its history is
\* still in place (Discover resets it when it takes the next pair).
PassFinished == pc = "discover" /\ lastOutcome # "none"

\* C3: between the discovery of a pair and its terminal handling
\* create_video is called at most MAX_EDIT_RETRIES times, and the retry loop
\* is left either with success (the last call returned True), or with
\* failure after MAX_EDIT_RETRIES failed calls, or with failure and no call
\* at all because caption generation failed.
C3_BoundedRenders ==
    /\ Len(renders) <= MAX_EDIT_RETRIES
    /\ pc = "cleanup" =>
          \/ /\ video_success
             /\ renders # <<>>
             /\ renders[Len(renders)].result = "True"
          \/ /\ ~video_success
             /\ Len(renders) = MAX_EDIT_RETRIES
             /\ AllRendersFailed
          \/ /\ ~video_success
             /\ renders = <<>>
             /\ srtResult = None

\* C3 witness: the retry loop is left after MAX_EDIT_RETRIES failed calls.
C3_Witness ==
    /\ pc = "cleanup"
    /\ ~video_success
    /\ Len(renders) = MAX_EDIT_RETRIES

\* C4: within one pass generate_srt is called at most once, before the
\* first create_video call, and every create_video call of the pass is
\* given the path that call returned.
C4_SrtOncePerPass ==
    /\ srtCalls <= 1
    /\ renders # <<>> => srtCalls = 1
    /\ \A i \in 1..Len(renders) : renders[i].srt = srtResult

\* C4 witness: three create_video calls after one generate_srt call.
C4_Witness ==
    /\ Len(renders) = MAX_EDIT_RETRIES
    /\ srtCalls = 1
    /\ renders[MAX_EDIT_RETRIES].srt # None

\* C5: a create_video call that returns True is the last call of the pass,
\* it is call number attempt, and the pass ends in SUCCESS; and as long as
\* fewer than MAX_EDIT_RETRIES calls were made and all of them failed
\* (returned False or raised) the retry loop goes on to the next call.
C5_SuccessOnKthAttempt ==
    /\ \A k \in 1..Len(renders) :
          renders[k].result = "True" =>
              /\ k = Len(renders)
              /\ attempt = k
              /\ video_success
              /\ pc \in {"cleanup", "discover"}
              /\ pc = "discover" => lastOutcome = "SUCCESS"
    /\ (srtResult # None /\ Len(renders) < MAX_EDIT_RETRIES /\ AllRendersFailed)
          => pc \in {"attempt", "video"}

\* C5 witness: fail, raise, succeed ends in SUCCESS.
C5_Witness ==
    /\ PassFinished
    /\ lastOutcome = "SUCCESS"
    /\ Len(renders) = 3
    /\ renders[1].result = "False"
    /\ renders[2].result = "raise"
    /\ renders[3].result = "True"

C7_SrtFailureSkipsRender ==
    (srtCalls = 1 /\ srtResult = None) =>
        /\ renders = <<>>
        /\ ~video_success
        /\ pc \in {"cleanup", "discover"}
        /\ pc = "discover" =>
              /\ lastOutcome = "FAILED_EXHAUSTED"
              /\ img_path \in images
              /\ aud_path \in audios

\* C7 witness: a pass whose caption generation failed is over.
C7_Witness ==
    /\ PassFinished
    /\ srtCalls = 1
    /\ srtResult = None

SrtRemoved == srtResult = None \/ srtResult \notin srtFiles

\* C8 as stated: after the terminal handling of a successful pair the
\* caption file, the image and the audio are gone, and no pair that
\* succeeded is taken again.
C8_SuccessDeletesSources ==
    /\ (PassFinished /\ lastOutcome = "SUCCESS") =>
          /\ SrtRemoved
          /\ img_path \notin images
          /\ aud_path \notin audios
    /\ pc # "discover" =>
          \A o \in DeleteOutcomes : <<img_path, aud_path, o>> \notin succeeded

\* C8 amended: after the terminal handling of a successful pair the
\* caption file is gone; if both os.remove calls succeeded the image and
\* the audio are gone; if removing the audio raised both are still there;
\* if removing the image raised the audio is gone and the image is still
\* there; and a pair whose audio was removed is never taken again.
C8_SuccessDeletesUnlessRemoveFails ==
    /\ (PassFinished /\ lastOutcome = "SUCCESS") =>
          /\ SrtRemoved
          /\ lastDelete = "ok" => (img_path \notin images /\ aud_path \notin audios)
          /\ lastDelete = "aud_fail" => (img_path \in images /\ aud_path \in audios)
          /\ lastDelete = "img_fail" => (img_path \in images /\ aud_path \notin audios)
    /\ pc # "discover" =>
          \A o \in {"ok", "img_fail"} : <<img_path, aud_path, o>> \notin succeeded

\* C8 witness: a successful pass with captions is over and both removals
\* succeeded.
C8_Witness ==
    /\ PassFinished
    /\ lastOutcome = "SUCCESS"
    /\ lastDelete = "ok"
    /\ srtResult # None

\* C24: a caption file returned by generate_srt is passed only to
\* create_video calls for the audio it was transcribed from, every call
\* that is given a caption path finds there the transcription of its own
\* audio, and after the terminal handling of the pair the file is gone.
C24_CaptionBelongsToOneJob ==
    /\ \A i \in 1..Len(renders) :
          /\ renders[i].aud = aud_path
          /\ renders[i].srt # None =>
                /\ renders[i].srt = SafeSrtPath(renders[i].aud)
                /\ renders[i].origin = renders[i].aud
    /\ (pc = "video" /\ srt_file # None) =>
          (srt_file \in srtFiles /\ srtOrigin[srt_file] = aud_path)
    /\ (PassFinished /\ srt_file # None) => srt_file \notin srtFiles

\* C24 witness: the second audio, whose caption path is the one the first
\* audio's caption was renamed to, was rendered with its own caption after
\* the first pair had succeeded
C24_Witness ==
    /\ \E o \in DeleteOutcomes : <<1, 1, o>> \in succeeded
    /\ aud_path = 2
    /\ renders # <<>>
    /\ renders[1].srt = 2
    /\ renders[1].origin = 2

\* The first pair went through a whole pass without success while another
\* image and another audio are waiting
FirstPairFailedOthersWait ==
    /\ PassFinished
    /\ lastOutcome = "FAILED_EXHAUSTED"
    /\ img_path = 1 /\ aud_path = 1
    /\ 2 \in images /\ 2 \in audios

\* create_video is called for the second audio
SecondAudioRendered == \E i \in 1..Len(renders) : renders[i].aud = 2

\* No create_video call for the first audio returns True
FirstPairNeverRenders ==
    \A i \in 1..Len(renders) : renders[i].aud = 1 => renders[i].result # "True"

\* C27: if the first pair never renders and another pair waits, the batch
\* loop gets to render the other pair.
C27_OtherPairRendered ==
    []FirstPairNeverRenders => (FirstPairFailedOthersWait ~> SecondAudioRendered)

\* C9 as stated: for a pair that has reached FAILED_EXHAUSTED no further
\* generate_srt or create_video call is made.
C9_ExhaustedIsTerminal ==
    (pc # "discover" /\ <<img_path, aud_path>> \in exhausted) =>
        (srtCalls = 0 /\ renders = <<>>)


\* ------------------------------------------------------------------
\* editit.py: create_video (lines 110-236) and the retry loop calling it
\* ------------------------------------------------------------------

\* effects_list holds whatever callables load_effect_modules found. What
\* matters to the frame loop is whether a plugin writes into the array it
\* is given and returns it ("inplace", as apply_effect_frame does through
\* overlay_transparent) or leaves it alone and returns a new array
\* ("newarray").
Effects == {"inplace", "newarray"}

EffectLists == UNION {[1..n -> Effects] : n \in 0..MaxEffects}

\* A plugin call returns, or raises after having written the first
\* `wrote` pixels of its result.
EffectOutcomes ==
    {[raised |-> FALSE, wrote |-> Cardinality(Pixels)]}
        \cup {[raised |-> TRUE, wrote |-> k] : k \in 0..Cardinality(Pixels)}

\* inplace: pixel by pixel into the given array, as the channel loop of
\* overlay_transparent (lines 133-137) does; a written pixel is inverted
InPlaceWrite(f, k) == [i \in Pixels |-> IF i <= k THEN 1 - f[i] ELSE f[i]]

\* newarray: the mirrored frame in a new array, the argument is not written
NewArray(f) == [i \in Pixels |-> f[Cardinality(Pixels) + 1 - i]]

\* The result of a plugin call that returns
Transform(effect, f) ==
    IF effect = "inplace" THEN InPlaceWrite(f, Cardinality(Pixels)) ELSE NewArray(f)

\* The content of the array the plugin was given, after the call
BufferAfter(effect, f, outcome) ==
    IF effect = "inplace" THEN InPlaceWrite(f, outcome.wrote) ELSE f

\* lines 199-208: frame = effect(frame, **kwargs) inside try/except. When
\* the call raises, `frame` is not assigned and still names the buffer the
\* plugin was given.
FrameAfterEffect(effect, f, outcome) ==
    IF outcome.raised
    THEN BufferAfter(effect, f, outcome)
    ELSE Transform(effect, f)

\* lines 198-208: the except branch does not leave the effect loop, the
\* next plugin is called whether or not this one raised
NextEffectMutant(i, raised) ==
    IF raised THEN Len(effects_list) + 1 ELSE i + 1

NextEffect(i, raised) == i + 1

\* line 195: frame = img.copy()
CopiesBaseImageMutant == FALSE

CopiesBaseImage == TRUE

\* line 194: for frame_idx in range(total_frames)
FramesLeftMutant == frame_idx + 1 < total_frames

FramesLeft == frame_idx < total_frames

\* lines 114-139: the outcomes of steps 1 and 2
\*   "ok"       the image loads and ffprobe reports the duration
\*   "noimage"  cv2.imread returns None: return False
\*   "raise"    img.shape or cv2.resize raises, outside every try block
\*   "ffprobe"  ffprobe fails or its output is no number: return False
PrepareOutcomes == {"ok", "noimage", "raise", "ffprobe"}

\* lines 133-139: a duration that gives no frame is a failure
PrepareResult(outcome) ==
    IF outcome = "ok" /\ total_frames <= 0 THEN "short" ELSE outcome

\* line 143: if srt_path and os.path.exists(srt_path)
HasSubtitlesMutant(path, exists) == path # None

HasSubtitles(path, exists) == path # None /\ exists

\* lines 142-164: video_filters
VideoFilters(path, exists) ==
    IF HasSubtitles(path, exists) THEN "subtitles" ELSE ""

\* lines 167-187: `-vf` is in the command when video_filters is not empty
FfmpegCmd(filters) == IF filters # "" THEN {"-vf"} ELSE {}

\* lines 110-187: create_video up to the encoder command
Prepare ==
    /\ pcF = "prepare"
    /\ \E outcome \in PrepareOutcomes :
         /\ prepared' = PrepareResult(outcome)
         /\ IF prepared' = "ok"
            THEN /\ video_filters' = VideoFilters(srt_path, srtExists)
                 /\ ffmpeg_cmd' = FfmpegCmd(video_filters')
                 /\ pcF' = "popen"
                 /\ UNCHANGED retval
            ELSE /\ retval' = IF prepared' = "raise" THEN "raise" ELSE "False"
                 /\ pcF' = "done"
                 /\ UNCHANGED <<video_filters, ffmpeg_cmd>>
    /\ UNCHANGED <<effects_list, total_frames, img, process, frame_idx, effect_i,
                   frame, expected, written, sent, aliased, pipe, stalled,
                   baseImage, applied, finalized, srt_path, srtExists, callNo,
                   encoders>>
    /\ UNCHANGED <<ledgerVars, orchVars, peerVars, effectVars, dlVars>>

\* editit.py lines 272-299: the retry loop calls create_video again after
\* a call that did not return True; the locals of the call start afresh
NextCall ==
    /\ pcF = "done"
    /\ retval \in {"False", "raise"}
    /\ callNo < MAX_EDIT_RETRIES
    /\ callNo' = callNo + 1
    /\ pcF' = "prepare" /\ process' = "none"
    /\ frame_idx' = 0 /\ effect_i' = 0
    /\ frame' = img /\ expected' = img
    /\ retval' = "none"
    /\ written' = <<>> /\ sent' = <<>>
    /\ aliased' = FALSE /\ pipe' = 0 /\ stalled' = FALSE
    /\ applied' = <<>> /\ finalized' = "none"
    /\ video_filters' = "" /\ ffmpeg_cmd' = {}
    /\ prepared' = "none"
    /\ UNCHANGED <<effects_list, total_frames, img, baseImage, srt_path,
                   srtExists, encoders>>
    /\ UNCHANGED <<ledgerVars, orchVars, peerVars, effectVars, dlVars>>

\* line 191: subprocess.Popen
StartEncoder ==
    /\ pcF = "popen"
    /\ \E started \in BOOLEAN :
         IF started
         THEN /\ process' = "running"
              /\ encoders' = encoders + 1
              /\ pcF' = "frame"
              /\ UNCHANGED retval
         ELSE \* Popen raised: except Exception, process is None
              /\ retval' = "False"
              /\ pcF' = "done"
              /\ UNCHANGED <<process, encoders>>
    /\ UNCHANGED prepVars
    /\ UNCHANGED <<effects_list, total_frames, img, frame_idx, effect_i, frame,
                   expected, written, sent, aliased, pipe, stalled, baseImage,
                   applied, finalized>>
    /\ UNCHANGED <<ledgerVars, orchVars, peerVars, effectVars, dlVars>>

\* lines 194-195: the next frame starts from a copy of the base image
BeginFrame ==
    /\ pcF = "frame"
    /\ FramesLeft
    /\ frame' = img
    /\ aliased' = ~CopiesBaseImage
    /\ expected' = img
    /\ applied' = <<>>
    /\ effect_i' = 1
    /\ pcF' = "effect"
    /\ UNCHANGED <<effects_list, total_frames, img, process, frame_idx, retval,
                   written, sent, pipe, stalled, baseImage, finalized>>
    /\ UNCHANGED <<prepVars, encoders>>
    /\ UNCHANGED <<ledgerVars, orchVars, peerVars, effectVars, dlVars>>

\* lines 198-208: one plugin call of the effect loop. What the plugin
\* writes into the array it was given is also written into img when the
\* two are the same array.
ApplyEffect ==
    /\ pcF = "effect"
    /\ effect_i <= Len(effects_list)
    /\ \E outcome \in EffectOutcomes :
         LET effect == effects_list[effect_i]
         IN  /\ frame' = FrameAfterEffect(effect, frame, outcome)
             /\ img' = IF aliased THEN BufferAfter(effect, frame, outcome) ELSE img
             /\ aliased' = (aliased /\ (outcome.raised \/ effect = "inplace"))
             /\ expected' = IF outcome.raised THEN expected
                            ELSE Transform(effect, expected)
             /\ applied' = Append(applied, [effect |-> effect_i, raised |-> outcome.raised])
             /\ effect_i' = NextEffect(effect_i, outcome.raised)
    /\ UNCHANGED <<effects_list, total_frames, pcF, process, frame_idx,
                   retval, written, sent, pipe, stalled, baseImage, finalized>>
    /\ UNCHANGED <<prepVars, encoders>>
    /\ UNCHANGED <<ledgerVars, orchVars, peerVars, effectVars, dlVars>>

\* line 210: process.stdin.write(frame.tobytes()). The write returns when
\* the pipe takes the frame and blocks while the pipe is full; it raises
\* BrokenPipeError when the encoder has exited.
WriteFrame ==
    /\ pcF = "effect"
    /\ effect_i > Len(effects_list)
    /\ \E ok \in BOOLEAN :
         IF ok
         THEN /\ pipe < PipeCapacity
              /\ pipe' = pipe + 1
              /\ written' = Append(written, frame_idx)
              /\ sent' = [frame |-> frame, expected |-> expected,
                          applied |-> Len(applied)]
              /\ frame_idx' = frame_idx + 1
              /\ pcF' = "frame"
              /\ UNCHANGED <<process, retval, encoders>>
         ELSE \* the pipe is broken: except Exception, kill, return False
              /\ ~stalled
              /\ process' = "killed"
              /\ encoders' = encoders - 1
              /\ retval' = "False"
              /\ pcF' = "done"
              /\ UNCHANGED <<written, sent, frame_idx, pipe>>
    /\ UNCHANGED <<effects_list, total_frames, img, effect_i, frame, expected,
                   aliased, stalled, baseImage, applied, finalized>>
    /\ UNCHANGED prepVars
    /\ UNCHANGED <<ledgerVars, orchVars, peerVars, effectVars, dlVars>>

\* The encoder (ffmpeg) reads one frame from its stdin
EncoderReads ==
    /\ process = "running"
    /\ pcF # "done"
    /\ ~stalled
    /\ pipe > 0
    /\ pipe' = pipe - 1
    /\ UNCHANGED <<effects_list, total_frames, img, pcF, process, frame_idx,
                   effect_i, frame, retval, expected, written, sent, aliased,
                   stalled, baseImage, applied, finalized>>
    /\ UNCHANGED <<prepVars, encoders>>
    /\ UNCHANGED <<ledgerVars, orchVars, peerVars, effectVars, dlVars>>

\* The encoder hangs: it stays alive and reads no more
EncoderStalls ==
    /\ process = "running"
    /\ pcF # "done"
    /\ ~stalled
    /\ stalled' = TRUE
    /\ UNCHANGED <<effects_list, total_frames, img, pcF, process, frame_idx,
                   effect_i, frame, retval, expected, written, sent, aliased,
                   pipe, baseImage, applied, finalized>>
    /\ UNCHANGED <<prepVars, encoders>>
    /\ UNCHANGED <<ledgerVars, orchVars, peerVars, effectVars, dlVars>>

\* lines 218-236: close stdin, wait for the encoder, return
\*   "zero"     the encoder exits with code 0
\*   "nonzero"  the encoder exits with another code
\*   "timeout"  wait(timeout=30) raises TimeoutExpired: kill
\*   "error"    stdin.close() raises: except Exception, kill
FinalizeOutcomes == {"zero", "nonzero", "timeout", "error"}

\* lines 222-236: the value create_video returns after the cleanup step
FinalizeResultMutant(outcome) ==
    IF outcome \in {"zero", "nonzero"} THEN "True" ELSE "False"

FinalizeResult(outcome) == IF outcome = "zero" THEN "True" ELSE "False"

\* lines 229-236: process.kill() in both except branches
ProcessAfterFinalizeMutant(outcome) ==
    IF outcome \in {"zero", "nonzero"} THEN "exited"
    ELSE IF outcome = "timeout" THEN "running" ELSE "killed"

ProcessAfterFinalize(outcome) ==
    IF outcome \in {"zero", "nonzero"} THEN "exited" ELSE "killed"

Finalize ==
    /\ pcF = "frame"
    /\ ~FramesLeft
    /\ \E outcome \in FinalizeOutcomes :
         /\ stalled => outcome = "timeout"   \* a hung encoder never exits
         /\ process' = ProcessAfterFinalize(outcome)
         /\ retval' = FinalizeResult(outcome)
         /\ finalized' = outcome
    /\ encoders' = IF process' = "running" THEN encoders ELSE encoders - 1
    /\ pcF' = "done"
    /\ UNCHANGED prepVars
    /\ UNCHANGED <<effects_list, total_frames, img, frame_idx, effect_i, frame,
                   expected, written, sent, aliased, pipe, stalled, baseImage,
                   applied>>
    /\ UNCHANGED <<ledgerVars, orchVars, peerVars, effectVars, dlVars>>

FrameInit ==
    /\ effects_list \in EffectLists
    /\ total_frames \in 0..MaxFrames
    /\ img \in Frames
    /\ pcF = "prepare" /\ process = "none"
    /\ frame_idx = 0 /\ effect_i = 0
    /\ frame = img
    /\ retval = "none"
    /\ expected = img
    /\ written = <<>> /\ sent = <<>>
    /\ aliased = FALSE /\ pipe = 0 /\ stalled = FALSE
    /\ baseImage = img
    /\ applied = <<>> /\ finalized = "none"
    /\ srt_path \in {None, 1}
    /\ srtExists \in BOOLEAN
    /\ srt_path = None => ~srtExists
    /\ video_filters = "" /\ ffmpeg_cmd = {}
    /\ prepared = "none" /\ callNo = 1 /\ encoders = 0
    /\ LedgerIdle
    /\ OrchIdle
    /\ EffectIdle
    /\ DownloadIdle

FrameNext ==
    \/ Prepare
    \/ NextCall
    \/ StartEncoder
    \/ BeginFrame
    \/ ApplyEffect
    \/ WriteFrame
    \/ EncoderReads
    \/ EncoderStalls
    \/ Finalize

SpecFrame == FrameInit /\ [][FrameNext]_vars

\* ------------------------------------------------------------------
\* Properties of the frame loop
\* ------------------------------------------------------------------

\* C10: every frame written to the encoder equals the frame the same
\* plugin calls produce with the calls that raised left out, also when a
\* plugin wrote into the buffer before it raised.
C10_FailedPluginLeavesFrame ==
    sent # <<>> => sent.frame = sent.expected

\* create_video returned from inside the streaming loop
ReturnedWhileStreaming ==
    pcF = "done" /\ process = "killed" /\ finalized = "none"

\* C11: a plugin that raises aborts neither the frame nor the job: the
\* plugins of effects_list are called one after the other whatever the
\* earlier ones did, a frame reaches the encoder only after all of them
\* were called, and when create_video returns from inside the streaming
\* loop it does so at the write, after every plugin of the frame was called.
C11_FailedPluginDoesNotAbort ==
    /\ \A i \in 1..Len(applied) : applied[i].effect = i
    /\ pcF = "effect" => Len(applied) = effect_i - 1
    /\ sent # <<>> => sent.applied = Len(effects_list)
    /\ ReturnedWhileStreaming => Len(applied) = Len(effects_list)

\* C11 witness: the first plugin of the last frame raised, a later one was
\* still called and returned, and create_video returned True
C11_Witness ==
    /\ retval = "True"
    /\ Len(applied) >= 2
    /\ applied[1].raised
    /\ ~applied[Len(applied)].raised
    /\ Len(written) = total_frames

\* C12: no write to a frame buffer changes the stored base image, the
\* buffer of a frame is never the base image itself once a plugin can see
\* it, and with an empty plugin list every frame written equals the
\* normalized base image.
C12_EmptyListWritesBaseImage ==
    /\ img = baseImage
    /\ ~aliased
    /\ (effects_list = <<>> /\ sent # <<>>) => sent.frame = baseImage

\* C12 witness: two frames were written with an empty plugin list
C12_Witness ==
    /\ effects_list = <<>>
    /\ Len(written) >= 2
    /\ sent.frame = baseImage

\* C13: True is returned only when all frames were written and the
\* encoder exited with code 0 within the timeout; a non-zero exit returns
\* False; a timeout kills the encoder and returns False.
C13_TrueOnlyAfterCleanExit ==
    /\ retval = "True" =>
         /\ Len(written) = total_frames
         /\ finalized = "zero"
         /\ process = "exited"
    /\ finalized = "nonzero" => retval = "False"
    /\ finalized = "timeout" => (retval = "False" /\ process = "killed")

\* C13 witness: the encoder took all frames and exited with a non-zero code
C13_Witness ==
    /\ finalized = "nonzero"
    /\ retval = "False"
    /\ Len(written) = total_frames

\* C14: create_video always returns: in every state where it has not
\* returned, some step of it or of the encoder can be taken.
C14_CreateVideoReturns == pcF = "done" \/ ENABLED FrameNext

\* C15: the indices written are 0, 1, 2, ... in this order, each once,
\* never more than total_frames of them; stdin is closed only after the
\* last one, and a successful attempt has written all of them.
C15_FramesInOrder ==
    /\ \A i \in 1..Len(written) : written[i] = i - 1
    /\ Len(written) <= total_frames
    /\ finalized # "none" => Len(written) = total_frames
    /\ retval = "True" => Len(written) = total_frames

\* C15 witness: stdin was closed after two frames were written
C15_Witness ==
    /\ finalized # "none"
    /\ total_frames >= 2
    /\ written = [i \in 1..total_frames |-> i - 1]

\* C21: the encoder command carries the caption filter exactly when a
\* caption path was given and the file exists; without the filter the
\* call goes on as with it: the return before the launch depends on the
\* image and the duration only.
C21_SubtitlesIffCaptionExists ==
    /\ prepared = "ok" =>
          /\ ("-vf" \in ffmpeg_cmd) <=> (srt_path # None /\ srtExists)
          /\ (video_filters # "") <=> ("-vf" \in ffmpeg_cmd)
    /\ prepared = "short" => total_frames <= 0
    /\ (pcF = "done" /\ process = "none" /\ retval = "False") =>
          prepared \in {"noimage", "ffprobe", "short", "ok"}
    /\ (prepared = "ok" /\ pcF # "popen") => (process # "none" \/ retval = "False")

\* C21 witness: a caption path was given, the file is missing, the
\* encoder ran without the filter and create_video returned True
C21_Witness ==
    /\ retval = "True"
    /\ srt_path # None
    /\ ~srtExists
    /\ ffmpeg_cmd = {}
    /\ Len(written) = total_frames

\* C28: create_video has at most one encoder subprocess, none is left
\* running when it returns, whatever the return path, and none is running
\* when the next call starts.
C28_NoEncoderLeftRunning ==
    /\ encoders = (IF process = "running" THEN 1 ELSE 0)
    /\ pcF \in {"done", "prepare", "popen"} => encoders = 0
    /\ pcF = "done" => process \in {"none", "exited", "killed"}
    /\ (pcF = "done" /\ prepared # "ok") => process = "none"

\* C28 witness: the second call of a pair has returned after a finalize
\* timeout, the first one after a broken pipe or a failed exit
C28_Witness ==
    /\ callNo = 2
    /\ pcF = "done"
    /\ finalized = "timeout"
    /\ process = "killed"

\* ------------------------------------------------------------------
\* subscribe_effect.py: apply_effect_frame
\* ------------------------------------------------------------------
VIDEO_WIDTH == 1280
start_sec == 1
duration_sec == 5
pad == 12

\* line 41: target_width = int(video_width * ratio), ratio = 0.25
target_width == VIDEO_WIDTH \div 4

MaxFrameIdx == 181      \* largest frame_idx of a call
FpsValues == {1, 2, 30}

\* frame.shape[0] and frame.shape[1] of the frame passed in
FrameShapes == {[h |-> 720, w |-> 1280], [h |-> 240, w |-> 320]}

\* What load_gifs keeps of an asset: the number of its frames and their
\* height after the resize to target_width
GifFrameCount == [n \in AssetNames |->
                    IF n = "a.gif" THEN 1 ELSE IF n = "b.gif" THEN 15 ELSE 2]
GifHeight == [n \in AssetNames |-> IF n = "c.gif" THEN 800 ELSE 180]

\* lines 156-159: current_sec = frame_idx / fps; current_sec < start_sec.
\* The quotient of two small integers is below 1.0 exactly when the
\* numerator is below the denominator.
BeforeStartMutant(idx, fps) == idx <= start_sec * fps

BeforeStart(idx, fps) == idx < start_sec * fps

\* lines 161-163: elapsed_in_effect = current_sec - start_sec;
\* elapsed_in_effect > duration_sec. For quotients in [4, 8) the
\* subtraction of 1.0 is exact, so the comparison is that of the integers.
AfterEnd(idx, fps) ==
    idx - start_sec * fps > duration_sec * fps

\* line 166: int((elapsed_in_effect / duration_sec) * total) % total is
\* computed in binary floating point. Where the exact product is a whole
\* number k the rounded product is k or lies just below it. For the calls
\* of this model (fps in FpsValues, the frame counts of GifFrameCount) the
\* product lies below k in exactly these cases, and the index is then k - 1.
RoundedBelow ==
    {[fps |-> 30, total |-> 15, idx |-> 40],
     [fps |-> 30, total |-> 15, idx |-> 160]}

GifIdxOutcomes(idx, fps, total) ==
    LET num == (idx - start_sec * fps) * total
        den == duration_sec * fps
        k   == num \div den
    IN  IF [fps |-> fps, total |-> total, idx |-> idx] \in RoundedBelow
        THEN {(k - 1) % total}
        ELSE {k % total}

\* lines 170-172: the top-left corner of the overlay
OverlayX(shape) == shape.w - target_width - pad
OverlayY(shape, name) == shape.h - GifHeight[name] - pad

\* lines 125-130 and 174: overlay_transparent draws unless its boundary check fails
OverlayFitsMutant(shape, h, w, x, y) == TRUE

OverlayFits(shape, h, w, x, y) ==
    ~(y + h > shape.h \/ x + w > shape.w \/ y < 0 \/ x < 0)

\* `return frame` before overlay_transparent is reached
Unchanged(name) ==
    [drawn |-> FALSE, name |-> name, gif_idx |-> -1, x |-> 0, y |-> 0]

\* lines 148-175 after pick_gif_for_video has returned the frames of `name`
EffectResults(args, name) ==
    IF name = NoGif THEN {Unchanged(name)}
    ELSE IF BeforeStart(args.frame_idx, args.fps) THEN {Unchanged(name)}
    ELSE IF AfterEnd(args.frame_idx, args.fps) THEN {Unchanged(name)}
    ELSE LET x == OverlayX(args.shape)
             y == OverlayY(args.shape, name)
         IN  {[drawn |-> OverlayFits(args.shape, GifHeight[name], target_width, x, y),
               name |-> name, gif_idx |-> g, x |-> x, y |-> y] :
                 g \in GifIdxOutcomes(args.frame_idx, args.fps, GifFrameCount[name])}

\* apply_effect_frame(frame, frame_idx, fps, video_id), the whole call
apply_effect_frame ==
    /\ pcG = "call"
    /\ pcG' = "returned"
    /\ IF ALL_GIFS = {}
       THEN /\ gateRet' = Unchanged(NoGif)
            /\ UNCHANGED <<USAGE_DATA, usageFile, calls, saveFailed>>
       ELSE /\ PickStep(USAGE_DATA, USAGE_DATA', gateCall.video_id, "main")
            /\ gateRet' \in EffectResults(gateCall, calls'[Len(calls')].name)
    /\ UNCHANGED <<ALL_GIFS, restarts, assetsChanged, gateCall, gifFolder>>
    /\ UNCHANGED <<orchVars, frameVars, peerVars, dlVars>>

EffectInit ==
    /\ ALL_GIFS \in LoadableGifs
    /\ usageFile = [kind |-> "missing", data |-> EmptyUsage]
    /\ USAGE_DATA = load_usage(usageFile)
    /\ calls = <<>>
    /\ restarts = 0
    /\ saveFailed = FALSE
    /\ assetsChanged = FALSE
    /\ peerData = EmptyUsage
    /\ gateCall \in [frame_idx : 0..MaxFrameIdx, fps : FpsValues,
                     video_id : {VideoIdOrder[1]}, shape : FrameShapes]
    /\ gateRet = <<>>
    /\ pcG = "call"
    /\ gifFolder = <<>>
    /\ OrchIdle
    /\ FrameIdle
    /\ DownloadIdle

EffectNext == apply_effect_frame

SpecEffect == EffectInit /\ [][EffectNext]_vars

\* ------------------------------------------------------------------
\* Properties of apply_effect_frame
\* ------------------------------------------------------------------

\* An asset was picked and its overlay lies inside the frame
Drawable ==
    /\ gateRet.name # NoGif
    /\ OverlayFits(gateCall.shape, GifHeight[gateRet.name], target_width,
                   OverlayX(gateCall.shape), OverlayY(gateCall.shape, gateRet.name))

\* C16 as stated: at fps = 30, frame 29 has no overlay, frame 30 has
\* overlay frame 0, frame 179 has no overlay.
C16_GatingAt30 ==
    (pcG = "returned" /\ gateCall.fps = 30) =>
        /\ gateCall.frame_idx = 29 => ~gateRet.drawn
        /\ (gateCall.frame_idx = 30 /\ Drawable) =>
              (gateRet.drawn /\ gateRet.gif_idx = 0)
        /\ gateCall.frame_idx = 179 => ~gateRet.drawn

\* C16 amended: at fps = 30, frame 29 has no overlay; with an asset
\* picked whose overlay lies inside the frame, frame 30 has overlay
\* frame 0 and frame 179 still has an overlay; frame 181 has none.
C16_GatingAt30Amended ==
    (pcG = "returned" /\ gateCall.fps = 30) =>
        /\ gateCall.frame_idx = 29 => ~gateRet.drawn
        /\ (gateCall.frame_idx = 30 /\ Drawable) =>
              (gateRet.drawn /\ gateRet.gif_idx = 0)
        /\ (gateCall.frame_idx = 179 /\ Drawable) => gateRet.drawn
        /\ gateCall.frame_idx = 181 => ~gateRet.drawn

\* C16 witness: frame 179 at fps = 30 was composited
C16_Witness ==
    /\ pcG = "returned"
    /\ gateCall.fps = 30
    /\ gateCall.frame_idx = 179
    /\ gateRet.drawn

\* C17: the overlay is composited only for 1.0 <= t < 6.0, t = frame_idx / fps
C17_HalfOpenWindow ==
    (pcG = "returned" /\ gateRet.drawn) =>
        /\ start_sec * gateCall.fps <= gateCall.frame_idx
        /\ gateCall.frame_idx < (start_sec + duration_sec) * gateCall.fps

\* C22: an overlay is composited with its top-left corner at
\* (frame width - overlay width - 12, frame height - overlay height - 12),
\* which is (948, 528) for a 1280x720 frame and a 320x180 overlay, and
\* only when that rectangle lies inside the frame; otherwise the frame is
\* returned unchanged.
C22_BottomRightPlacement ==
    (pcG = "returned" /\ gateRet.gif_idx # -1) =>
        LET W == gateCall.shape.w
            H == gateCall.shape.h
            w == target_width
            h == GifHeight[gateRet.name]
        IN  /\ gateRet.x = W - w - 12
            /\ gateRet.y = H - h - 12
            /\ (W = 1280 /\ H = 720 /\ w = 320 /\ h = 180) =>
                  (gateRet.drawn /\ gateRet.x = 948 /\ gateRet.y = 528)
            /\ gateRet.drawn <=>
                  (gateRet.x >= 0 /\ gateRet.y >= 0
                   /\ gateRet.x + w <= W /\ gateRet.y + h <= H)

\* C22 witness: inside the window the overlay does not fit the frame and
\* the frame was returned unchanged
C22_Witness ==
    /\ pcG = "returned"
    /\ gateRet.gif_idx # -1
    /\ gateRet.y < 0
    /\ ~gateRet.drawn

\* C25: inside the window the overlay frame index is
\* floor((elapsed / 5.0) * total) mod total, elapsed = frame_idx / fps - 1,
\* and a valid index.
C25_GifIdxIsFloor ==
    (pcG = "returned" /\ gateRet.gif_idx # -1) =>
        LET total == GifFrameCount[gateRet.name]
            num   == (gateCall.frame_idx - gateCall.fps) * total
            den   == 5 * gateCall.fps
        IN  /\ gateRet.gif_idx = (num \div den) % total
            /\ 0 <= gateRet.gif_idx
            /\ gateRet.gif_idx < total

\* ------------------------------------------------------------------
\* subscribe_effect.py as a plugin of one render attempt: the module is
\* imported, then apply_effect_frame is called for frame 0, 1, ...
\* ------------------------------------------------------------------

\* gif_usage.json as earlier runs may have left it
UsageFiles ==
    {[kind |-> "missing", data |-> EmptyUsage],
     [kind |-> "ok", data |-> [used |-> <<"a.gif">>,
                               video_map |-> (VideoIdOrder[2] :> "a.gif")]]}

\* lines 64 and 87: ALL_GIFS = load_gifs(...), USAGE_DATA = load_usage()
ImportModule ==
    /\ pcG = "import"
    /\ ALL_GIFS' = load_gifs(gifFolder.exists, gifFolder.files, gifFolder.unreadable)
    /\ USAGE_DATA' = load_usage(usageFile)
    /\ pcG' = "call"
    /\ UNCHANGED <<usageFile, calls, restarts, saveFailed, assetsChanged>>
    /\ UNCHANGED <<gateCall, gateRet, gifFolder>>
    /\ UNCHANGED <<orchVars, frameVars, peerVars, dlVars>>

\* editit.py lines 194-206: the next frame of the attempt is passed to the
\* plugin with the same fps and the same video_id, the basename of the
\* output path of the attempt
NextFrame ==
    /\ pcG = "returned"
    /\ gateCall.frame_idx + 1 < MaxFrames
    /\ gateCall' = [gateCall EXCEPT !.frame_idx = @ + 1]
    /\ pcG' = "call"
    /\ UNCHANGED <<gateRet, gifFolder>>
    /\ UNCHANGED <<ledgerVars, orchVars, frameVars, peerVars, dlVars>>

PluginInit ==
    /\ gifFolder \in [exists : BOOLEAN, files : SUBSET AssetNames,
                      unreadable : SUBSET AssetNames]
    /\ usageFile \in UsageFiles
    /\ ~gifFolder.exists => usageFile.kind = "missing"   \* USAGE_FILE is in the folder
    /\ ALL_GIFS = {}
    /\ USAGE_DATA = EmptyUsage
    /\ calls = <<>>
    /\ restarts = 0
    /\ saveFailed = FALSE
    /\ assetsChanged = FALSE
    /\ peerData = EmptyUsage
    /\ gateCall \in [frame_idx : {0}, fps : FpsValues,
                     video_id : {VideoIdOrder[1]}, shape : FrameShapes]
    /\ gateRet = <<>>
    /\ pcG = "import"
    /\ OrchIdle
    /\ FrameIdle
    /\ DownloadIdle

PluginNext ==
    \/ ImportModule
    \/ apply_effect_frame
    \/ NextFrame

SpecPlugin == PluginInit /\ [][PluginNext]_vars

\* C23: an asset that fails to load is left out of the asset table and
\* every other asset of the folder is loaded and is what selections
\* return; with an empty asset table (nothing loads, or no folder)
\* apply_effect_frame returns every frame unchanged and neither
\* USAGE_DATA nor the ledger file changes.
C23_LoadFailureIsolated ==
    pcG # "import" =>
        /\ ALL_GIFS = (IF gifFolder.exists
                       THEN gifFolder.files \ gifFolder.unreadable ELSE {})
        /\ \A i \in 1..Len(calls) : calls[i].name \in ALL_GIFS
        /\ (ALL_GIFS # {} /\ pcG = "returned") => calls # <<>>
        /\ ALL_GIFS = {} =>
              /\ calls = <<>>
              /\ usageFile \in UsageFiles
              /\ USAGE_DATA = load_usage(usageFile)
              /\ ~saveFailed
              /\ pcG = "returned" => ~gateRet.drawn

\* C23 witness: one asset of the folder failed to load and a frame got the
\* overlay of another one
C23_Witness ==
    /\ pcG = "returned"
    /\ gifFolder.exists
    /\ gifFolder.files \cap gifFolder.unreadable # {}
    /\ gateRet.drawn
    /\ gateRet.name \in gifFolder.files \ gifFolder.unreadable

\* C26: every frame of an attempt is passed the same job identity, only
\* the call for the first frame can change the ledger, and every frame
\* gets the same asset.
C26_OnePickPerAttempt ==
    /\ \A i \in 1..Len(calls) :
          /\ calls[i].id = gateCall.video_id
          /\ i > 1 => ~calls[i].mutated
          /\ calls[i].name = calls[1].name
    /\ Len(calls) <= gateCall.frame_idx + 1

\* C26 witness: the second frame of an attempt got the asset the first
\* frame had chosen among several
C26_Witness ==
    /\ pcG = "returned"
    /\ Len(calls) = 2
    /\ calls[1].mutated
    /\ Cardinality(ALL_GIFS) >= 2
    /\ gateCall.frame_idx = 1

\* ------------------------------------------------------------------
\* subscribe_effect.py imported by two renderer processes
\* ------------------------------------------------------------------
\* Both processes have run lines 64 and 87 on the same folder; each keeps
\* its own USAGE_DATA and writes the one gif_usage.json. No lock, no
\* re-read of the file and no rename is in the code.
IdsOf(proc) == {calls[i].id : i \in {j \in 1..Len(calls) : calls[j].proc = proc}}

\* The two processes render different jobs: a process asks for an
\* identity it asked for before or for one nobody has asked for
IdsCallableBy(proc) == IdsOf(proc) \cup (CallableIds \ SeenIds)

\* pick_gif_for_video(video_id) in the second process
PeerPick(video_id) ==
    /\ PickStep(peerData, peerData', video_id, "peer")
    /\ UNCHANGED <<ALL_GIFS, USAGE_DATA, restarts, assetsChanged>>
    /\ UNCHANGED <<orchVars, frameVars, effectVars, dlVars>>

SharedInit ==
    /\ ALL_GIFS \in LoadableGifs
    /\ usageFile = [kind |-> "missing", data |-> EmptyUsage]
    /\ USAGE_DATA = load_usage(usageFile)
    /\ peerData = load_usage(usageFile)
    /\ calls = <<>>
    /\ restarts = 0
    /\ saveFailed = FALSE
    /\ assetsChanged = FALSE
    /\ gateCall = <<>> /\ gateRet = <<>> /\ pcG = "idle"
    /\ gifFolder = <<>>
    /\ OrchIdle
    /\ FrameIdle
    /\ DownloadIdle

SharedNext ==
    \/ \E video_id \in IdsCallableBy("main") : pick_gif_for_video(video_id)
    \/ \E video_id \in IdsCallableBy("peer") : PeerPick(video_id)

SpecShared == SharedInit /\ [][SharedNext]_vars

\* The file holds the binding call i made
BindingInFile(i) ==
    /\ usageFile.kind = "ok"
    /\ calls[i].id \in DOMAIN usageFile.data.video_map
    /\ usageFile.data.video_map[calls[i].id] = calls[i].name

\* C20: with every save succeeding, no binding made by either process is
\* missing from the file, and over the selections of both processes
\* together no asset is chosen twice within a block of N selections.
C20_SharedLedgerAtomic ==
    ~saveFailed =>
        /\ \A i \in 1..Len(calls) : calls[i].mutated => BindingInFile(i)
        /\ (ALL_GIFS # {} /\ DistinctIds) =>
              LET n == Cardinality(ALL_GIFS)
              IN  \A i, j \in 1..Len(calls) :
                      (i < j /\ (i - 1) \div n = (j - 1) \div n)
                          => calls[i].name # calls[j].name

\* ------------------------------------------------------------------
\* fetch.py: fast_download_with_retry(url, final_path)
\* ------------------------------------------------------------------
MAX_SONG_DOWNLOAD_RETRIES == 3

MaxChunks == 2      \* chunks of the resource at url

\* A file written by this call, holding the first n chunks of the body
Downloaded(n) == [src |-> "download", chunks |-> n]

\* A file of the same name left by an earlier call
OldFile == [src |-> "old", chunks |-> 0]

\* line 137: for attempt in range(MAX_SONG_DOWNLOAD_RETRIES)
AttemptsLeft == attemptD < MAX_SONG_DOWNLOAD_RETRIES

\* line 180: if attempt < MAX_SONG_DOWNLOAD_RETRIES - 1
RetriesLeft == attemptD < MAX_SONG_DOWNLOAD_RETRIES - 1

\* lines 162-165: iter_content ends when the whole body was received; a
\* body that ends early raises a RequestException
BodyCompleteMutant == TRUE

BodyComplete == tempFile.chunks = body

\* lines 137-140: the next iteration of the retry loop
StartAttempt ==
    /\ pcD = "attempt"
    /\ AttemptsLeft
    /\ attemptsMade' = attemptsMade + 1
    /\ pcD' = "get"
    /\ UNCHANGED <<attemptD, body, tempFile, finalFile, dlRet, finalBefore>>
    /\ UNCHANGED <<ledgerVars, orchVars, frameVars, peerVars, effectVars>>

\* lines 178-188: except RequestException: sleep and go on, or, on the
\* last attempt, remove the temp file and return None
RequestFailed ==
    IF RetriesLeft
    THEN /\ attemptD' = attemptD + 1
         /\ pcD' = "attempt"
         /\ UNCHANGED <<tempFile, dlRet>>
    ELSE /\ tempFile' = NoFile
         /\ dlRet' = "None"
         /\ pcD' = "done"
         /\ UNCHANGED attemptD

\* lines 189-191: except Exception: return None
OtherFailed ==
    /\ dlRet' = "None"
    /\ pcD' = "done"
    /\ UNCHANGED <<attemptD, tempFile>>

\* lines 142-161: requests.get, raise_for_status, the progress bar, and
\* open(temp_path, 'wb'), which empties the temp file
GetResponse ==
    /\ pcD = "get"
    /\ \E outcome \in {"ok", "request", "other"} :
         CASE outcome = "ok" ->
                /\ tempFile' = Downloaded(0)
                /\ pcD' = "write"
                /\ UNCHANGED <<attemptD, dlRet>>
           [] outcome = "request" -> RequestFailed
           [] outcome = "other" -> OtherFailed
    /\ UNCHANGED <<body, finalFile, attemptsMade, finalBefore>>
    /\ UNCHANGED <<ledgerVars, orchVars, frameVars, peerVars, effectVars>>

\* lines 162-165: one chunk is received and written to the temp file
WriteChunk ==
    /\ pcD = "write"
    /\ tempFile.chunks < body
    /\ \E outcome \in {"ok", "request", "other"} :
         CASE outcome = "ok" ->
                /\ tempFile' = Downloaded(tempFile.chunks + 1)
                /\ UNCHANGED <<pcD, attemptD, dlRet>>
           [] outcome = "request" -> RequestFailed
           [] outcome = "other" -> OtherFailed
    /\ UNCHANGED <<body, finalFile, attemptsMade, finalBefore>>
    /\ UNCHANGED <<ledgerVars, orchVars, frameVars, peerVars, effectVars>>

\* lines 162-167: the chunk loop ends, the temp file is closed
FinishWrite ==
    /\ pcD = "write"
    /\ BodyComplete
    /\ pcD' = "move"
    /\ UNCHANGED <<attemptD, body, tempFile, finalFile, dlRet, attemptsMade,
                   finalBefore>>
    /\ UNCHANGED <<ledgerVars, orchVars, frameVars, peerVars, effectVars>>

\* lines 171-176: os.makedirs(OUTPUT_FOLDER), os.replace(temp_path,
\* final_path), return the base name; a failing makedirs or replace is
\* caught by except Exception and leaves both files as they are
MoveToOutput ==
    /\ pcD = "move"
    /\ \E moved \in BOOLEAN :
         IF moved
         THEN /\ finalFile' = tempFile
              /\ tempFile' = NoFile
              /\ dlRet' = "name"
              /\ pcD' = "done"
              /\ UNCHANGED attemptD
         ELSE OtherFailed /\ UNCHANGED finalFile
    /\ UNCHANGED <<body, attemptsMade, finalBefore>>
    /\ UNCHANGED <<ledgerVars, orchVars, frameVars, peerVars, effectVars>>

DownloadInit ==
    /\ pcD = "attempt" /\ attemptD = 0
    /\ body \in 0..MaxChunks
    /\ tempFile \in {NoFile, OldFile}
    /\ finalFile \in {NoFile, OldFile}
    /\ dlRet = "none" /\ attemptsMade = 0
    /\ finalBefore = finalFile
    /\ LedgerIdle
    /\ OrchIdle
    /\ FrameIdle
    /\ EffectIdle

DownloadNext ==
    \/ StartAttempt
    \/ GetResponse
    \/ WriteChunk
    \/ FinishWrite
    \/ MoveToOutput

SpecDownload == DownloadInit /\ [][DownloadNext]_vars

====
